---- MODULE Spec2Model ----
(***************************************************************************)
(* The perceive-think-act loop of the form-filling agent (main), its       *)
(* reply parser, its page serializer and the callers that start a run.     *)
(*                                                                         *)
(* One action is one continuation of the async function main: the code     *)
(* that runs between two awaits.  Collaborator calls (chromium.launch,     *)
(* browser.newPage, page.goto, page.evaluate, generateText, the locator    *)
(* calls, page.waitForTimeout) either return or throw; browser.close() is  *)
(* taken to fulfil its promise.                                            *)
(***************************************************************************)
EXTENDS Integers, Sequences, FiniteSets, TLC

(***************************************************************************)
(* Bounds of the model and constants of the program.                       *)
(***************************************************************************)
maxSteps == 20

\* The model's reply is unconstrained during the first steps of a run, the
\* free steps; in later steps it is the run's late reply (an unknown action,
\* a fill or prose, fixed for the run), a finish or a fill of a missing
\* field.  FreeSteps is the number of free steps, FairFreeSteps their
\* number where termination is checked.
FreeSteps == 2
FairFreeSteps == 1

\* Longest reply text (in tokens) the parser is applied to on its own.
MaxTextLen == 5

\* Most elements of a document the serializer is applied to on its own.
MaxDomLen == 3

Runs == {"http", "cron"}

(***************************************************************************)
(* Reply texts.  A text is a sequence of tokens: braces, commas, prose     *)
(* words, scalar members ("k":"v") and keys that open a nested object.     *)
(***************************************************************************)
LB == [t |-> "{", k |-> "", v |-> ""]
RB == [t |-> "}", k |-> "", v |-> ""]
COMMA == [t |-> ",", k |-> "", v |-> ""]
W == [t |-> "w", k |-> "", v |-> ""]
Mem(k, v) == [t |-> "mem", k |-> k, v |-> v]
Key(k) == [t |-> "key", k |-> k, v |-> ""]

Undefined == "undefined"

\* const x = value; Op(x): the value is computed once and then used.
With(value, Op(_)) == CHOOSE y \in {Op(x) : x \in {value}} : TRUE
NestedObject == "[object Object]"

\* text.match(/\{[\s\S]*\}/): from the first "{" to the last "}" after it.
BraceStarts(text) == {p \in 1..Len(text) : text[p] = LB}
Min(S) == CHOOSE m \in S : \A n \in S : m <= n
Max(S) == CHOOSE m \in S : \A n \in S : m >= n
BraceEnds(text, from) == {p \in (from + 1)..Len(text) : text[p] = RB}

NoMatch == [found |-> FALSE, first |-> 0, last |-> 0]

RegexMatch(text) ==
  IF BraceStarts(text) = {} THEN NoMatch
  ELSE LET f == Min(BraceStarts(text)) IN
       IF BraceEnds(text, f) = {} THEN NoMatch
       ELSE [found |-> TRUE, first |-> f, last |-> Max(BraceEnds(text, f))]

\* JSON.parse on a token sequence that starts with "{".
ParseFail == [ok |-> FALSE, next |-> 0, obj |-> <<>>]

RECURSIVE ParseObject(_, _), ParseMembers(_, _, _)

AfterMember(s, p, acc) ==
  IF p > Len(s) THEN ParseFail
  ELSE IF s[p] = RB THEN [ok |-> TRUE, next |-> p + 1, obj |-> acc]
  ELSE IF s[p] = COMMA THEN ParseMembers(s, p + 1, acc)
  ELSE ParseFail

ParseMembers(s, p, acc) ==
  IF p > Len(s) THEN ParseFail
  ELSE IF s[p].t = "mem"
    THEN AfterMember(s, p + 1, Append(acc, <<s[p].k, s[p].v>>))
  ELSE IF s[p].t = "key"
    THEN LET inner == ParseObject(s, p + 1) IN
         IF inner.ok
           THEN AfterMember(s, inner.next, Append(acc, <<s[p].k, NestedObject>>))
           ELSE ParseFail
  ELSE ParseFail

ParseObject(s, p) ==
  IF p > Len(s) \/ s[p] # LB THEN ParseFail
  ELSE IF p + 1 <= Len(s) /\ s[p + 1] = RB
    THEN [ok |-> TRUE, next |-> p + 2, obj |-> <<>>]
  ELSE ParseMembers(s, p + 1, <<>>)

\* JSON.parse(s): the whole of s must be one object.
JSONParse(s) ==
  With(ParseObject(s, 1), LAMBDA r :
    IF r.ok /\ r.next = Len(s) + 1 THEN [ok |-> TRUE, obj |-> r.obj]
    ELSE [ok |-> FALSE, obj |-> <<>>])

\* obj.k: the value of the last member named k, undefined when there is none.
Field(obj, k) ==
  LET hits == {p \in 1..Len(obj) : obj[p][1] = k} IN
  IF hits = {} THEN Undefined ELSE obj[Max(hits)][2]

\* The try block that sets `action`: match, then JSON.parse of the match.
NoJSONFound ==
  [ok |-> FALSE, error |-> "No JSON object found in response.", obj |-> <<>>]

ParseMatch(jsonMatch) ==
  With(JSONParse(jsonMatch), LAMBDA j :
    IF j.ok THEN [ok |-> TRUE, error |-> "", obj |-> j.obj]
    ELSE [ok |-> FALSE, error |-> "SyntaxError", obj |-> <<>>])

ExtractAction(text) ==
  With(RegexMatch(text), LAMBDA m :
    IF ~m.found THEN NoJSONFound
    ELSE With(SubSeq(text, m.first, m.last), ParseMatch))


(***************************************************************************)
(* The page.  The document is the form the run navigates to; its dynamic   *)
(* part is the value of each field and whether the form was submitted.     *)
(* A text is a sequence of words, " " standing for leading or trailing     *)
(* white space.                                                            *)
(***************************************************************************)
El(tag, id, for, type, name, text) ==
  [tag |-> tag, id |-> id, for |-> for, type |-> type, name |-> name,
   text |-> text, role |-> "", value |-> "", options |-> <<>>,
   selectedIndex |-> 0]

NoPage == [loaded |-> FALSE, values |-> [firstName |-> ""],
           selected |-> [gender |-> 0], submitted |-> FALSE]

LoadedPage == [loaded |-> TRUE, values |-> [firstName |-> ""],
               selected |-> [gender |-> 1], submitted |-> FALSE]

GenderOptions == <<"Select", "Other">>

\* The elements of the document, in document order.
Document(page) ==
  << El("h2", "", "", "", "", <<"Personal Information">>),
     El("label", "", "firstName", "", "", <<" ", "First Name", " ">>),
     [El("input", "firstName", "", "text", "firstName", <<>>)
        EXCEPT !.value = page.values.firstName],
     El("label", "", "gender", "", "", <<"Gender">>),
     [El("select", "gender", "", "", "gender", <<>>)
        EXCEPT !.options = GenderOptions, !.selectedIndex = page.selected.gender],
     El("button", "", "", "button", "", <<"Next">>),
     El("button", "", "", "button", "", <<"Next">>),
     El("button", "", "", "submit", "", <<" ", "Submit">>) >>

\* The for attribute of a label that has none: it equals no id.
NoFor == "(no for attribute)"

\* The elements of the documents the serializer is applied to on its own:
\* labels for the id "a" with and without text, a label with an empty for
\* attribute, a label without one, and elements with and without an id.
DomElements ==
  {El("label", "", "a", "", "", <<" ", "Name", " ">>),
   El("label", "", "a", "", "", <<" ">>),
   El("label", "", "", "", "", <<"Stray">>),
   El("label", "", NoFor, "", "", <<"Loose">>),
   El("button", "a", "", "submit", "", <<"Go", " ">>),
   El("button", "", "", "button", "", <<" ", "Go">>),
   El("input", "a", "", "text", "first", <<>>),
   El("div", "", "", "", "", <<"Text">>)}

Doms == UNION {[1..n -> DomElements] : n \in 0..MaxDomLen}

\* String.prototype.trim on a text.
RECURSIVE TrimLeft(_), TrimRight(_)
TrimLeft(t) == IF t # <<>> /\ Head(t) = " " THEN TrimLeft(Tail(t)) ELSE t
TrimRight(t) ==
  IF t # <<>> /\ t[Len(t)] = " " THEN TrimRight(SubSeq(t, 1, Len(t) - 1)) ELSE t
Trim(t) == TrimRight(TrimLeft(t))

\* querySelectorAll('input, textarea, select, button, a[role="button"], h2')
IsInteractive(el) ==
  \/ el.tag \in {"input", "textarea", "select", "button", "h2"}
  \/ el.tag = "a" /\ el.role = "button"

\* The first label for the id among those that have text.
LabelForWithText(doc, id) ==
  LET ls == {p \in 1..Len(doc) :
               doc[p].tag = "label" /\ doc[p].for = id /\ Trim(doc[p].text) # <<>>}
  IN IF ls = {} THEN 0 ELSE Min(ls)

\* document.querySelector(`label[for="${id}"]`): the first such label, or 0.
LabelFor(doc, id) ==
  LET ls == {p \in 1..Len(doc) : doc[p].tag = "label" /\ doc[p].for = id} IN
  IF ls = {} THEN 0 ELSE Min(ls)

\* One line of the snapshot: <tag type= name= value=>label</tag>.
SerializeElement(doc, el) ==
  LET value == IF el.tag \in {"input", "textarea"} THEN el.value
               ELSE IF el.tag = "select"
                 THEN IF el.selectedIndex \in 1..Len(el.options)
                        THEN el.options[el.selectedIndex] ELSE ""
               ELSE ""
      l == LabelFor(doc, el.id)
      label == IF l # 0 THEN Trim(doc[l].text) ELSE Trim(el.text)
  IN [tag |-> el.tag, type |-> el.type, name |-> el.name, value |-> value,
      label |-> label]

\* interactiveElements.map(...): the lines of the elements, in document order.
SerializeAll(doc) ==
  With(SelectSeq(doc, IsInteractive), LAMBDA interactiveElements :
    [p \in 1..Len(interactiveElements) |->
       SerializeElement(doc, interactiveElements[p])])

\* The snapshot of the first call kept and returned by every later call.
getSerializedPageMemoized(page) == With(Document(LoadedPage), SerializeAll)

getSerializedPage(page) == With(Document(page), SerializeAll)

(***************************************************************************)
(* The dispatcher: the locator calls of the switch on action.action.  A    *)
(* field the action object lacks reaches the call as undefined: getByLabel *)
(* and fill throw on it, getByRole drops the name filter when the name is  *)
(* undefined and finds nothing for an undefined role, selectOption matches *)
(* every option when the label of the option is undefined.                 *)
(***************************************************************************)
\* page.getByLabel(label, {exact: true})
ByLabel(doc, label) ==
  {p \in 1..Len(doc) :
     /\ doc[p].tag # "label"
     /\ doc[p].id # ""
     /\ \E l \in 1..Len(doc) :
          doc[l].tag = "label" /\ doc[l].for = doc[p].id /\ Trim(doc[l].text) = <<label>>}

RoleOf(el) ==
  CASE el.tag = "button" \/ el.role = "button" -> "button"
    [] el.tag = "h2" -> "heading"
    [] el.tag = "select" -> "combobox"
    [] el.tag \in {"input", "textarea"} -> "textbox"
    [] OTHER -> ""

\* page.getByRole(role, {name, exact: true}): an undefined name is no filter.
ByRole(doc, role, name) ==
  {p \in 1..Len(doc) :
     /\ RoleOf(doc[p]) = role
     /\ name # Undefined => Trim(doc[p].text) = <<name>>}

Done(page) == [ok |-> TRUE, error |-> "", page |-> page]
Failed(page, error) == [ok |-> FALSE, error |-> error, page |-> page]

\* A locator action needs exactly one element (strict mode).
Resolve(page, targets) ==
  IF targets = {} THEN Failed(page, "TimeoutError")
  ELSE IF Cardinality(targets) > 1 THEN Failed(page, "StrictModeViolation")
  ELSE Done(page)

fill(doc, page, label, value) ==
  LET targets == ByLabel(doc, label)
      r == Resolve(page, targets)
  IN IF label = Undefined \/ value = Undefined THEN Failed(page, "TypeError")
     ELSE IF ~r.ok THEN r
     ELSE LET el == doc[CHOOSE p \in targets : TRUE] IN
          IF el.tag \notin {"input", "textarea"} THEN Failed(page, "NotFillable")
          ELSE Done([page EXCEPT !.values[el.id] = value])

click(doc, page, role, name) ==
  LET targets == ByRole(doc, role, name)
      r == Resolve(page, targets)
  IN IF ~r.ok THEN r
     ELSE LET el == doc[CHOOSE p \in targets : TRUE] IN
          IF el.type = "submit" THEN Done([page EXCEPT !.submitted = TRUE])
          ELSE Done(page)

selectOption(doc, page, label, value) ==
  LET targets == ByLabel(doc, label)
      r == Resolve(page, targets)
  IN IF label = Undefined THEN Failed(page, "TypeError")
     ELSE IF ~r.ok THEN r
     ELSE LET el == doc[CHOOSE p \in targets : TRUE]
              opts == {o \in 1..Len(el.options) :
                         value # Undefined => el.options[o] = value}
          IN IF el.tag # "select" THEN Failed(page, "NotSelect")
             ELSE IF opts = {} THEN Failed(page, "TimeoutError")
             ELSE Done([page EXCEPT !.selected[el.id] = Min(opts)])

PageActions == {"fill", "click", "select"}

\* The awaited call of the cases fill, click and select.
Dispatch(page, obj) ==
  With(Document(page), LAMBDA doc :
    CASE Field(obj, "action") = "fill" ->
           fill(doc, page, Field(obj, "label"), Field(obj, "value"))
      [] Field(obj, "action") = "click" ->
           click(doc, page, Field(obj, "role"), Field(obj, "name"))
      [] Field(obj, "action") = "select" ->
           selectOption(doc, page, Field(obj, "label"), Field(obj, "value"))
      [] OTHER -> Done(page))


(***************************************************************************)
(* The replies the language model gives inside a run.                      *)
(***************************************************************************)
Obj1(a) == <<LB, Mem("action", a), RB>>
Obj3(a, k1, v1, k2, v2) ==
  <<LB, Mem("action", a), COMMA, Mem(k1, v1), COMMA, Mem(k2, v2), RB>>

ReplyUnknown == Obj1("wait")
ReplyFinish == Obj1("finish")
ReplyProse == <<W, W>>
ReplyTrailingBrace == <<LB, Mem("action", "finish"), RB, W, RB>>
ReplyFill == <<W>> \o Obj3("fill", "label", "First Name", "value", "Ann") \o <<W>>
ReplyClick == Obj3("click", "role", "button", "name", "Submit")
ReplySelect == Obj3("select", "label", "Gender", "value", "Other")
ReplyEmptyObject == <<LB, RB>>
ReplyFillMissing == Obj3("fill", "label", "Nickname", "value", "Ann")
ReplyClickAmbiguous == Obj3("click", "role", "button", "name", "Next")
ReplyFillNoFields == Obj1("fill")
ReplyClickNoName == <<LB, Mem("action", "click"), COMMA, Mem("role", "heading"), RB>>

LateReplies == {ReplyUnknown, ReplyFill, ReplyProse}

Replies ==
  {ReplyUnknown, ReplyFinish, ReplyProse, ReplyTrailingBrace, ReplyFill,
   ReplyClick, ReplySelect, ReplyEmptyObject, ReplyFillMissing,
   ReplyClickAmbiguous, ReplyFillNoFields, ReplyClickNoName}

RepliesAt(free, step, late) ==
  IF step < free THEN Replies ELSE {late, ReplyFinish, ReplyFillMissing}

\* With both callers running, a run gets a fill, prose, a finish or a fill of
\* a missing field in its free steps and one of the last two after.
ConcurrentReplies == {ReplyFill, ReplyProse, ReplyFinish, ReplyFillMissing}

RepliesIn(callers, free, step, late) ==
  IF callers # Runs THEN RepliesAt(free, step, late)
  ELSE IF step < free THEN ConcurrentReplies
  ELSE {ReplyFinish, ReplyFillMissing}

\* All texts of at most MaxTextLen tokens, for the parser on its own.
Alphabet == {LB, RB, COMMA, W, Key("extra"), Mem("action", "finish")}
Texts == UNION {[1..n -> Alphabet] : n \in 0..MaxTextLen}

(***************************************************************************)
(* The data a caller passes to main, as JSON.stringify renders it: the     *)
(* members whose value is defined, in declaration order.                   *)
(***************************************************************************)
WorkflowData(firstName, lastName, gender) ==
  <<[k |-> "firstName", v |-> firstName], [k |-> "lastName", v |-> lastName],
    [k |-> "gender", v |-> gender]>>

scheduledWorkflowData == WorkflowData("Scheduled", "Process", "Other")

\* req.body: what express.json() parsed, or nothing.
NoBody == [parsed |-> FALSE, data |-> <<>>]
Body(firstName, lastName, gender) ==
  [parsed |-> TRUE, data |-> WorkflowData(firstName, lastName, gender)]

Bodies ==
  {NoBody,
   Body("Ann", "Lee", Undefined),
   Body(Undefined, "Lee", "Other"),
   Body("Ann", Undefined, Undefined),
   Body("", "Lee", Undefined)}

\* data.k, undefined when there is no such member.
Member(data, k) ==
  LET hits == {p \in 1..Len(data) : data[p].k = k} IN
  IF hits = {} THEN Undefined ELSE data[CHOOSE p \in hits : TRUE].v

\* !x on a string or undefined.
Falsy(v) == v \in {Undefined, ""}

\* Validation that looks at firstName only.
IsValidFirstNameOnly(workflowPayload) ==
  /\ workflowPayload.parsed
  /\ ~Falsy(Member(workflowPayload.data, "firstName"))

\* The negation of the test of runWorkflowHandler's first if.
IsValid(workflowPayload) ==
  /\ workflowPayload.parsed
  /\ ~Falsy(Member(workflowPayload.data, "firstName"))
  /\ ~Falsy(Member(workflowPayload.data, "lastName"))

\* Handler that answers 200 whatever main's outcome.
StatusAlwaysOk(outcome) == 200

\* res.status(...) after `await main(...)`: 200 in the try, 500 in the catch.
Status(outcome) == IF outcome.state = "rejected" THEN 500 ELSE 200

RECURSIVE Stringify(_)
Stringify(data) ==
  IF data = <<>> THEN <<>>
  ELSE IF Head(data).v = Undefined THEN Stringify(Tail(data))
  ELSE <<Head(data)>> \o Stringify(Tail(data))

Message(role, kind, body) ==
  [role |-> role, content |-> [kind |-> kind, body |-> body]]

SystemMessage(data) == Message("system", "systemPrompt", Stringify(data))
PerceptionMessage(pageElements) == Message("user", "currentPrompt", pageElements)
AssistantMessage(text) == Message("assistant", "text", text)
CorrectionMessage == Message("user", "invalidJSON", <<>>)

(***************************************************************************)
(* State.  Every variable maps a run of main (named after the caller that  *)
(* started it) to the run's value of                                       *)
(*   pc                   the await the run is suspended at                *)
(*   browser              the variable browser and the state of its object *)
(*   page                 the page created by createSession                *)
(*   i                    the loop counter                                 *)
(*   conversationHistory  the message list                                 *)
(*   action               the parsed action of the current step            *)
(*   completion           how the try block ended (return or throw)        *)
(*   result               the state of the promise main returned           *)
(*   observed             what the caller's await of main has seen         *)
(*   status               the status of the HTTP response, 0 before it     *)
(*   messages             the messages of the last call of generateText    *)
(* and to the bookkeeping of the run:                                      *)
(*   thrown               the error raised inside the try block            *)
(*   closeCalls           calls of browser.close()                         *)
(*   snapshots, modelCalls, dispatches   calls of getSerializedPage,       *)
(*                        generateText and the locator actions             *)
(*   parseFailures        replies that took the catch of the parse         *)
(*   submitStep           the step whose click submitted the form, or 0    *)
(* triggers is the set of callers that start a run, body the body of the   *)
(* HTTP request, freeSteps the number of free steps and lateReply the      *)
(* reply the language model falls into after them;                         *)
(* parseInput and parseOutput are the argument and the result of the       *)
(* parser on its own, dom and serialized the document and the result of    *)
(* the serializer on its own.                                              *)
(***************************************************************************)
VARIABLES pc, browser, page, i, conversationHistory, action, completion,
          result, observed, status, messages, thrown, closeCalls, snapshots,
          modelCalls, dispatches, parseFailures, submitStep, triggers, body,
          lateReply, freeSteps, parseInput, parseOutput, dom, serialized

runVars == <<pc, browser, page, i, conversationHistory, action, completion,
             result, observed, status, messages, thrown, closeCalls,
             snapshots, modelCalls, dispatches, parseFailures, submitStep>>
vars == <<runVars, triggers, body, lateReply, freeSteps, parseInput,
          parseOutput, dom, serialized>>

NoAction == [parsed |-> FALSE, obj |-> <<>>]
NoCompletion == [type |-> "none", value |-> ""]
Pending == [state |-> "pending", error |-> ""]

InitialRun ==
  [pc |-> "idle", browser |-> "undefined", page |-> NoPage, i |-> 0,
   conversationHistory |-> <<>>, action |-> NoAction,
   completion |-> NoCompletion, result |-> Pending, observed |-> Pending,
   status |-> 0, messages |-> <<>>, thrown |-> "", closeCalls |-> 0, snapshots |-> 0, modelCalls |-> 0,
   dispatches |-> 0, parseFailures |-> 0, submitStep |-> 0]

\* The run r as one record, and the assignment of such a record to r.  The
\* actions bind the record with \E over a singleton, so it is computed once.
Cur(r) ==
  [pc |-> pc[r], browser |-> browser[r], page |-> page[r], i |-> i[r],
   conversationHistory |-> conversationHistory[r], action |-> action[r],
   completion |-> completion[r], result |-> result[r],
   observed |-> observed[r], status |-> status[r],
   messages |-> messages[r], thrown |-> thrown[r],
   closeCalls |-> closeCalls[r], snapshots |-> snapshots[r],
   modelCalls |-> modelCalls[r], dispatches |-> dispatches[r],
   parseFailures |-> parseFailures[r], submitStep |-> submitStep[r]]

\* The history as one list shared by the runs (a module-level variable).
SetSharedHistory(r, n) ==
  /\ pc' = [pc EXCEPT ![r] = n.pc]
  /\ browser' = [browser EXCEPT ![r] = n.browser]
  /\ page' = [page EXCEPT ![r] = n.page]
  /\ i' = [i EXCEPT ![r] = n.i]
  /\ conversationHistory' = [q \in Runs |-> n.conversationHistory]
  /\ action' = [action EXCEPT ![r] = n.action]
  /\ completion' = [completion EXCEPT ![r] = n.completion]
  /\ result' = [result EXCEPT ![r] = n.result]
  /\ observed' = [observed EXCEPT ![r] = n.observed]
  /\ status' = [status EXCEPT ![r] = n.status]
  /\ messages' = [messages EXCEPT ![r] = n.messages]
  /\ thrown' = [thrown EXCEPT ![r] = n.thrown]
  /\ closeCalls' = [closeCalls EXCEPT ![r] = n.closeCalls]
  /\ snapshots' = [snapshots EXCEPT ![r] = n.snapshots]
  /\ modelCalls' = [modelCalls EXCEPT ![r] = n.modelCalls]
  /\ dispatches' = [dispatches EXCEPT ![r] = n.dispatches]
  /\ parseFailures' = [parseFailures EXCEPT ![r] = n.parseFailures]
  /\ submitStep' = [submitStep EXCEPT ![r] = n.submitStep]
  /\ UNCHANGED <<triggers, body, lateReply, freeSteps, parseInput, parseOutput,
               dom, serialized>>

Set(r, n) ==
  /\ pc' = [pc EXCEPT ![r] = n.pc]
  /\ browser' = [browser EXCEPT ![r] = n.browser]
  /\ page' = [page EXCEPT ![r] = n.page]
  /\ i' = [i EXCEPT ![r] = n.i]
  /\ conversationHistory' = [conversationHistory EXCEPT ![r] = n.conversationHistory]
  /\ action' = [action EXCEPT ![r] = n.action]
  /\ completion' = [completion EXCEPT ![r] = n.completion]
  /\ result' = [result EXCEPT ![r] = n.result]
  /\ observed' = [observed EXCEPT ![r] = n.observed]
  /\ status' = [status EXCEPT ![r] = n.status]
  /\ messages' = [messages EXCEPT ![r] = n.messages]
  /\ thrown' = [thrown EXCEPT ![r] = n.thrown]
  /\ closeCalls' = [closeCalls EXCEPT ![r] = n.closeCalls]
  /\ snapshots' = [snapshots EXCEPT ![r] = n.snapshots]
  /\ modelCalls' = [modelCalls EXCEPT ![r] = n.modelCalls]
  /\ dispatches' = [dispatches EXCEPT ![r] = n.dispatches]
  /\ parseFailures' = [parseFailures EXCEPT ![r] = n.parseFailures]
  /\ submitStep' = [submitStep EXCEPT ![r] = n.submitStep]
  /\ UNCHANGED <<triggers, body, lateReply, freeSteps, parseInput, parseOutput,
               dom, serialized>>

(***************************************************************************)
(* The control flow of main between awaits, on a run record s.             *)
(***************************************************************************)
\* The function ends: its promise takes the completion of the try statement.
Settle(s) ==
  [s EXCEPT !.pc = "settled",
            !.result = IF s.completion.type = "throw"
                         THEN [state |-> "rejected", error |-> s.completion.value]
                         ELSE [state |-> "fulfilled", error |-> ""]]

\* Finally with the close at the end of the try block instead: a throw skips it.
FinallySkipsCloseOnThrow(s) ==
  IF s.browser # "undefined" /\ s.completion.type = "return"
    THEN [s EXCEPT !.pc = "close", !.closeCalls = @ + 1]
    ELSE Settle(s)

\* Finally without the await: main settles while the browser is closing.
FinallyDoesNotAwaitClose(s) ==
  IF s.browser # "undefined"
    THEN Settle([s EXCEPT !.closeCalls = @ + 1])
    ELSE Settle(s)

\* Finally without the test of browser: close is called in every run.
FinallyClosesUnguarded(s) == [s EXCEPT !.pc = "close", !.closeCalls = @ + 1]

\* finally { if (browser) { await browser.close(); ... } }
Finally(s) ==
  IF s.browser # "undefined"
    THEN [s EXCEPT !.pc = "close", !.closeCalls = @ + 1]
    ELSE Settle(s)

\* Catch that logs the error and does not rethrow it.
CatchSwallows(s, error) ==
  [s EXCEPT !.completion = [type |-> "return", value |-> "caught"]]

\* catch (error) { console.error(...); throw error; }
Catch(s, error) == [s EXCEPT !.completion = [type |-> "throw", value |-> error]]

\* An awaited call inside the try block throws.
Throw(s, error) == Finally(Catch([s EXCEPT !.thrown = error], error))

\* return, or falling out of the try block after the loop.
Return(s, why) == Finally([s EXCEPT !.completion = [type |-> "return", value |-> why]])

\* The loop test with <= for <: one iteration too many.
LoopConditionOffByOne(n) == n <= maxSteps

\* The loop test that gives up one iteration early.
LoopConditionStopsEarly(n) == n < maxSteps - 1

\* i < maxSteps
LoopCondition(n) == n < maxSteps

\* The loop test and, when it holds, the body up to its first await.
LoopTest(s) ==
  IF LoopCondition(s.i)
    THEN [s EXCEPT !.pc = "evaluate", !.action = NoAction, !.snapshots = @ + 1]
    ELSE Return(s, "exhausted")

\* continue, break out of the switch, or the end of the body: i++ and the test.
NextIteration(s) == LoopTest([s EXCEPT !.i = @ + 1])

\* ParseFailure without the inner try: the parse error reaches the outer catch.
ParseFailureAborts(s) == Throw(s, "SyntaxError")

\* ParseFailure that continues without the corrective message.
ParseFailureWithoutCorrection(s) ==
  NextIteration([s EXCEPT !.parseFailures = @ + 1])

\* The catch of the parse: the corrective message, then continue.
ParseFailure(s) ==
  NextIteration([s EXCEPT
    !.conversationHistory = Append(@, CorrectionMessage),
    !.parseFailures = @ + 1])

\* Switch whose default case ends the run like finish does.
SwitchFinishesOnUnknown(s, obj) ==
  LET kind == Field(obj, "action")
      t == [s EXCEPT !.action = [parsed |-> TRUE, obj |-> obj]]
  IN CASE kind \in PageActions -> [t EXCEPT !.pc = "locator", !.dispatches = @ + 1]
       [] OTHER -> [t EXCEPT !.pc = "waitForTimeout"]

\* Switch whose default case asks for a correction as a parse failure does.
SwitchCorrectsUnknown(s, obj) ==
  LET kind == Field(obj, "action")
      t == [s EXCEPT !.action = [parsed |-> TRUE, obj |-> obj]]
  IN CASE kind \in PageActions -> [t EXCEPT !.pc = "locator", !.dispatches = @ + 1]
       [] kind = "finish" -> [t EXCEPT !.pc = "waitForTimeout"]
       [] OTHER -> ParseFailure(t)

\* Switch whose finish case breaks like the others instead of returning.
SwitchFinishBreaks(s, obj) ==
  LET kind == Field(obj, "action")
      t == [s EXCEPT !.action = [parsed |-> TRUE, obj |-> obj]]
  IN CASE kind \in PageActions -> [t EXCEPT !.pc = "locator", !.dispatches = @ + 1]
       [] OTHER -> NextIteration(t)

\* Switch that checks the fields of the action and asks for a correction
\* when one is missing.
SwitchValidatesFields(s, obj) ==
  LET kind == Field(obj, "action")
      t == [s EXCEPT !.action = [parsed |-> TRUE, obj |-> obj]]
      missing == \/ kind \in {"fill", "select"}
                    /\ Undefined \in {Field(obj, "label"), Field(obj, "value")}
                 \/ kind = "click"
                    /\ Undefined \in {Field(obj, "role"), Field(obj, "name")}
  IN CASE missing -> ParseFailure(s)
       [] kind \in PageActions -> [t EXCEPT !.pc = "locator", !.dispatches = @ + 1]
       [] kind = "finish" -> [t EXCEPT !.pc = "waitForTimeout"]
       [] OTHER -> NextIteration(t)

\* switch (action.action)
Switch(s, obj) ==
  LET kind == Field(obj, "action")
      t == [s EXCEPT !.action = [parsed |-> TRUE, obj |-> obj]]
  IN CASE kind \in PageActions -> [t EXCEPT !.pc = "locator", !.dispatches = @ + 1]
       [] kind = "finish" -> [t EXCEPT !.pc = "waitForTimeout"]
       [] OTHER -> NextIteration(t)

\* The awaited locator call returned: break, then the next iteration.
OnDispatched(s, newPage) ==
  NextIteration([s EXCEPT
    !.page = newPage,
    !.submitStep = IF ~s.page.submitted /\ newPage.submitted THEN s.i + 1 ELSE @])

\* A dispatch error handled like a parse error: corrective message, next step.
OnDispatchErrorRetries(s, error) == ParseFailure(s)

\* The awaited locator call threw: the error leaves the loop for the catch.
OnDispatchError(s, error) == Throw(s, error)

\* The model asked before the perception of the step is pushed.
OnSnapshotCallsModelFirst(s, pageElements) ==
  [s EXCEPT !.modelCalls = @ + 1, !.pc = "generateText"]

\* The model called with a window: the system message and the new perception.
OnSnapshotSendsWindow(s, pageElements) ==
  [s EXCEPT
    !.conversationHistory = Append(@, PerceptionMessage(pageElements)),
    !.messages = <<s.conversationHistory[1], PerceptionMessage(pageElements)>>,
    !.modelCalls = @ + 1,
    !.pc = "generateText"]

\* From the return of getSerializedPage to the call of generateText.
OnSnapshot(s, pageElements) ==
  [s EXCEPT
    !.conversationHistory = Append(@, PerceptionMessage(pageElements)),
    !.messages = Append(s.conversationHistory, PerceptionMessage(pageElements)),
    !.modelCalls = @ + 1,
    !.pc = "generateText"]

\* From the reply of generateText to the next await.
OnReply(s, text) ==
  LET t == [s EXCEPT !.conversationHistory = Append(@, AssistantMessage(text))]
  IN With(ExtractAction(text), LAMBDA a :
       IF a.ok THEN Switch(t, a.obj) ELSE ParseFailure(t))


(***************************************************************************)
(* Actions: a caller starts main, an await of main returns or throws, the  *)
(* caller sees the outcome.                                                *)
(***************************************************************************)
\* The data of the run r: the scheduler's constant, the handler's payload.
Data(r) == IF r = "cron" THEN scheduledWorkflowData ELSE body.data

\* The handler finds a required field missing: 400, and main is not called.
RespondBadRequest(r) ==
  /\ r \in triggers
  /\ r = "http"
  /\ pc[r] = "idle"
  /\ ~IsValid(body)
  /\ \E s \in {Cur(r)} : Set(r, [s EXCEPT !.pc = "returned", !.status = 400])

\* The caller calls main(data): main runs up to `await chromium.launch`.
Invoke(r) ==
  /\ r \in triggers
  /\ pc[r] = "idle"
  /\ r = "http" => IsValid(body)
  /\ \E s \in {Cur(r)} : Set(r, [s EXCEPT !.pc = "launch"])

\* chromium.launch returns: browser is assigned, createSession calls newPage.
LaunchReturns(r) ==
  /\ pc[r] = "launch"
  /\ \E s \in {Cur(r)} : Set(r, [s EXCEPT !.browser = "open", !.pc = "newPage"])

LaunchThrows(r) ==
  /\ pc[r] = "launch"
  /\ \E n \in {Throw(Cur(r), "LaunchError")} : Set(r, n)

\* browser.newPage returns: createSession calls page.goto.
NewPageReturns(r) ==
  /\ pc[r] = "newPage"
  /\ \E s \in {Cur(r)} : Set(r, [s EXCEPT !.pc = "goto"])

NewPageThrows(r) ==
  /\ pc[r] = "newPage"
  /\ \E n \in {Throw(Cur(r), "NewPageError")} : Set(r, n)

\* page.goto returns: createSession returns the page, main builds the system
\* prompt, starts the history and enters the loop.
GotoReturns(r) ==
  /\ pc[r] = "goto"
  /\ \E s \in {[Cur(r) EXCEPT
                  !.page = LoadedPage,
                  !.conversationHistory = <<SystemMessage(Data(r))>>,
                  !.i = 0]} :
       \E n \in {LoopTest(s)} : Set(r, n)

GotoThrows(r) ==
  /\ pc[r] = "goto"
  /\ \E n \in {Throw(Cur(r), "NavigationError")} : Set(r, n)

\* getSerializedPage returns: the perception is pushed, generateText called.
EvaluateReturns(r) ==
  /\ pc[r] = "evaluate"
  /\ \E pageElements \in {getSerializedPage(page[r])} :
       \E s \in {Cur(r)} : \E n \in {OnSnapshot(s, pageElements)} : Set(r, n)

EvaluateThrows(r) ==
  /\ pc[r] = "evaluate"
  /\ \E n \in {Throw(Cur(r), "EvaluateError")} : Set(r, n)

\* generateText returns a text: it is pushed, parsed and switched on.
GenerateTextReturns(r) ==
  /\ pc[r] = "generateText"
  /\ \E text \in RepliesIn(triggers, freeSteps, i[r], lateReply) :
       \E s \in {Cur(r)} : \E n \in {OnReply(s, text)} : Set(r, n)

GenerateTextThrows(r) ==
  /\ pc[r] = "generateText"
  /\ \E n \in {Throw(Cur(r), "ModelError")} : Set(r, n)

\* The locator call of fill, click or select returns: break, next iteration.
LocatorReturns(r) ==
  /\ pc[r] = "locator"
  /\ \E d \in {Dispatch(page[r], action[r].obj)} :
       /\ d.ok
       /\ \E s \in {Cur(r)} : \E n \in {OnDispatched(s, d.page)} : Set(r, n)

\* It throws: the target does not resolve, or the page is gone.
LocatorThrows(r) ==
  /\ pc[r] = "locator"
  /\ \E d \in {Dispatch(page[r], action[r].obj)} :
       \E e \in (IF d.ok THEN {} ELSE {d.error}) \cup {"TargetClosedError"} :
         \E s \in {Cur(r)} : \E n \in {OnDispatchError(s, e)} : Set(r, n)

\* page.waitForTimeout(60000) of the finish case returns: return.
WaitForTimeoutReturns(r) ==
  /\ pc[r] = "waitForTimeout"
  /\ \E n \in {Return(Cur(r), "finish")} : Set(r, n)

WaitForTimeoutThrows(r) ==
  /\ pc[r] = "waitForTimeout"
  /\ \E n \in {Throw(Cur(r), "TargetClosedError")} : Set(r, n)

\* browser.close() returns: the finally block ends and main settles.
CloseReturns(r) ==
  /\ pc[r] = "close"
  /\ \E n \in {Settle([Cur(r) EXCEPT !.browser = "closed"])} : Set(r, n)

\* The caller's `await main(...)` resumes with the outcome: the scheduler
\* logs it, the handler answers with a status.
CallerObserves(r) ==
  /\ pc[r] = "settled"
  /\ observed[r] = Pending
  /\ \E s \in {Cur(r)} :
       Set(r, [s EXCEPT !.observed = result[r],
                        !.status = IF r = "http" THEN Status(result[r]) ELSE @])

\* The parser applied to a text on its own.
NotApplied == [applied |-> FALSE, ok |-> FALSE, error |-> "", obj |-> <<>>]

ApplyParser ==
  /\ ~parseOutput.applied
  /\ parseOutput' = [applied |-> TRUE, ok |-> ExtractAction(parseInput).ok,
                     error |-> ExtractAction(parseInput).error,
                     obj |-> ExtractAction(parseInput).obj]
  /\ UNCHANGED <<runVars, triggers, body, lateReply, freeSteps, parseInput, dom,
               serialized>>

\* The serializer applied to a document on its own.
NotSerialized == [applied |-> FALSE, elements |-> <<>>]

ApplySerializer ==
  /\ ~serialized.applied
  /\ serialized' = [applied |-> TRUE, elements |-> SerializeAll(dom)]
  /\ UNCHANGED <<runVars, triggers, body, lateReply, freeSteps, parseInput,
               parseOutput, dom>>

InitRuns ==
  /\ pc = [r \in Runs |-> InitialRun.pc]
  /\ browser = [r \in Runs |-> InitialRun.browser]
  /\ page = [r \in Runs |-> InitialRun.page]
  /\ i = [r \in Runs |-> InitialRun.i]
  /\ conversationHistory = [r \in Runs |-> InitialRun.conversationHistory]
  /\ action = [r \in Runs |-> InitialRun.action]
  /\ completion = [r \in Runs |-> InitialRun.completion]
  /\ result = [r \in Runs |-> InitialRun.result]
  /\ observed = [r \in Runs |-> InitialRun.observed]
  /\ status = [r \in Runs |-> InitialRun.status]
  /\ messages = [r \in Runs |-> InitialRun.messages]
  /\ thrown = [r \in Runs |-> InitialRun.thrown]
  /\ closeCalls = [r \in Runs |-> InitialRun.closeCalls]
  /\ snapshots = [r \in Runs |-> InitialRun.snapshots]
  /\ modelCalls = [r \in Runs |-> InitialRun.modelCalls]
  /\ dispatches = [r \in Runs |-> InitialRun.dispatches]
  /\ parseFailures = [r \in Runs |-> InitialRun.parseFailures]
  /\ submitStep = [r \in Runs |-> InitialRun.submitStep]

\* One run, started by the HTTP handler.
Init ==
  /\ InitRuns
  /\ triggers = {"http"}
  /\ body \in Bodies
  /\ lateReply \in LateReplies
  /\ freeSteps = FreeSteps
  /\ parseInput = <<>>
  /\ parseOutput = NotApplied
  /\ dom = <<>>
  /\ serialized = NotSerialized

Step(r) ==
  \/ RespondBadRequest(r)
  \/ Invoke(r)
  \/ LaunchReturns(r)
  \/ LaunchThrows(r)
  \/ NewPageReturns(r)
  \/ NewPageThrows(r)
  \/ GotoReturns(r)
  \/ GotoThrows(r)
  \/ EvaluateReturns(r)
  \/ EvaluateThrows(r)
  \/ GenerateTextReturns(r)
  \/ GenerateTextThrows(r)
  \/ LocatorReturns(r)
  \/ LocatorThrows(r)
  \/ WaitForTimeoutReturns(r)
  \/ WaitForTimeoutThrows(r)
  \/ CloseReturns(r)
  \/ CallerObserves(r)

Next == \E r \in Runs : Step(r)

Spec == Init /\ [][Next]_vars

\* One run with FairFreeSteps free steps, for termination.
InitFair ==
  /\ InitRuns
  /\ triggers = {"http"}
  /\ body \in Bodies
  /\ lateReply \in LateReplies
  /\ freeSteps = FairFreeSteps
  /\ parseInput = <<>>
  /\ parseOutput = NotApplied
  /\ dom = <<>>
  /\ serialized = NotSerialized

\* Every awaited call eventually returns or throws, and the caller resumes.
FairSpec == InitFair /\ [][Next]_vars /\ \A r \in Runs : WF_vars(Step(r))

\* The parser on every text of at most MaxTextLen tokens.
InitParser ==
  /\ InitRuns
  /\ triggers = {}
  /\ body = NoBody
  /\ lateReply = ReplyUnknown
  /\ freeSteps = 0
  /\ parseInput \in Texts
  /\ parseOutput = NotApplied
  /\ dom = <<>>
  /\ serialized = NotSerialized

NextParser == ApplyParser

SpecParser == InitParser /\ [][NextParser]_vars

\* The serializer on every document of at most MaxDomLen elements.
InitSerializer ==
  /\ InitRuns
  /\ triggers = {}
  /\ body = NoBody
  /\ lateReply = ReplyUnknown
  /\ freeSteps = 0
  /\ parseInput = <<>>
  /\ parseOutput = NotApplied
  /\ dom \in Doms
  /\ serialized = NotSerialized

NextSerializer == ApplySerializer

SpecSerializer == InitSerializer /\ [][NextSerializer]_vars

\* Two runs in progress at once: a cron tick during an HTTP request.
InitConcurrent ==
  /\ InitRuns
  /\ triggers = Runs
  /\ body \in Bodies
  /\ lateReply = ReplyUnknown
  /\ freeSteps = FreeSteps
  /\ parseInput = <<>>
  /\ parseOutput = NotApplied
  /\ dom = <<>>
  /\ serialized = NotSerialized

SpecConcurrent == InitConcurrent /\ [][Next]_vars


(***************************************************************************)
(* How a run ended.                                                        *)
(***************************************************************************)
Kind(r) == Field(action[r].obj, "action")
Settled(r) == pc[r] = "settled"
Launched(r) == browser[r] # "undefined"
Aborted(r) == thrown[r] # ""
Finished(r) == completion[r] = [type |-> "return", value |-> "finish"]
Exhausted(r) == completion[r] = [type |-> "return", value |-> "exhausted"]
Fulfilled(r) == result[r].state = "fulfilled"
Rejected(r) == result[r].state = "rejected"

(***************************************************************************)
(* C1.  As stated: every run of main that has ended called                 *)
(* browser.close() exactly once.                                           *)
(***************************************************************************)
C1_CloseOnceEveryRun == \A r \in Runs : Settled(r) => closeCalls[r] = 1

\* C1, amended: a run never calls browser.close() twice, and a run whose
\* chromium.launch returned a browser has called it exactly once when main
\* ends, by finish, by the step budget or by an error.
C1_CloseOnceWhenLaunched ==
  \A r \in Runs :
    /\ closeCalls[r] <= 1
    /\ Settled(r) /\ Launched(r) => closeCalls[r] = 1

C1_Witness ==
  \E r \in Runs :
    /\ Settled(r) /\ closeCalls[r] = 1
    /\ thrown[r] = "TimeoutError" /\ Kind(r) = "fill"

(***************************************************************************)
(* C2.  main fulfils its promise exactly when the run ended by a finish    *)
(* action (the return after the pause) or by the step budget, rejects      *)
(* exactly when an awaited call threw, and rejects with that error.        *)
(***************************************************************************)
C2_ResolveIffNotAborted ==
  \A r \in Runs :
    Settled(r) =>
      /\ Fulfilled(r) <=>
           \/ Kind(r) = "finish" /\ ~Aborted(r)
           \/ i[r] = maxSteps /\ ~Aborted(r)
      /\ Rejected(r) <=> Aborted(r)
      /\ Rejected(r) => result[r].error = thrown[r]
      /\ Fulfilled(r) \/ Rejected(r)

C2_Witness ==
  \E r \in Runs :
    Settled(r) /\ Rejected(r) /\ result[r].error = "ModelError" /\ i[r] = 1

(***************************************************************************)
(* C3.  Once the model call of an iteration has returned, the history has  *)
(* 1 + 2*N + F messages, N the iterations so far (the current one          *)
(* included) and F those whose reply did not parse: one system message,    *)
(* N + F user messages and N assistant messages.                           *)
(***************************************************************************)
CountRole(h, role) == Cardinality({p \in 1..Len(h) : h[p].role = role})

\* The current iteration is past its parse and has not ended.
InDispatch(r) ==
  /\ action[r].parsed
  /\ Kind(r) \in PageActions \cup {"finish"}
  /\ i[r] < maxSteps

Iterations(r) == IF InDispatch(r) THEN i[r] + 1 ELSE i[r]

C3_HistoryLength ==
  \A r \in Runs :
    (/\ conversationHistory[r] # <<>>
     /\ pc[r] # "generateText"
     /\ thrown[r] # "ModelError")
    => /\ Len(conversationHistory[r]) = 1 + 2 * Iterations(r) + parseFailures[r]
       /\ CountRole(conversationHistory[r], "system") = 1
       /\ CountRole(conversationHistory[r], "assistant") = Iterations(r)
       /\ CountRole(conversationHistory[r], "user") = Iterations(r) + parseFailures[r]

C3_Witness ==
  \E r \in Runs :
    /\ pc[r] = "evaluate" /\ i[r] = 2 /\ parseFailures[r] = 1
    /\ Len(conversationHistory[r]) = 6


(***************************************************************************)
(* C4.  A step whose reply has no extractable JSON object does not abort   *)
(* the run: nothing is dispatched, the invalid assistant message stays and *)
(* exactly one corrective user message follows it, i grows by one and the  *)
(* next perception starts while budget remains.                            *)
(***************************************************************************)
ParseFailedStep(r) ==
  /\ pc[r] = "generateText"
  /\ Len(conversationHistory'[r]) > Len(conversationHistory[r])
  /\ LET m == conversationHistory'[r][Len(conversationHistory[r]) + 1] IN
       m.role = "assistant" /\ ~ExtractAction(m.content.body).ok

C4_ParseFailureRecovers ==
  [][\A r \in Runs :
       ParseFailedStep(r) =>
         LET h == conversationHistory[r]
             h2 == conversationHistory'[r]
         IN /\ thrown'[r] = "" /\ result'[r] = Pending
            /\ dispatches'[r] = dispatches[r]
            /\ page'[r] = page[r]
            /\ ~action'[r].parsed
            /\ Len(h2) = Len(h) + 2
            /\ SubSeq(h2, 1, Len(h)) = h
            /\ h2[Len(h) + 2] = CorrectionMessage
            /\ i'[r] = i[r] + 1
            /\ IF i'[r] < maxSteps
                 THEN pc'[r] = "evaluate" /\ snapshots'[r] = snapshots[r] + 1
                 ELSE pc'[r] = "close" /\ completion'[r].type = "return"]_vars

C4_Witness ==
  \E r \in Runs :
    LET h == conversationHistory[r] IN
    /\ pc[r] = "evaluate" /\ i[r] = 1 /\ Len(h) = 4
    /\ h[4] = CorrectionMessage
    /\ h[3].role = "assistant"
    /\ ExtractAction(h[3].content.body).error = "SyntaxError"

(***************************************************************************)
(* C5.  A run takes at most maxSteps snapshots, makes at most maxSteps     *)
(* model calls and dispatches at most maxSteps page actions.               *)
(***************************************************************************)
C5_AtMostMaxSteps ==
  \A r \in Runs :
    /\ snapshots[r] <= maxSteps
    /\ modelCalls[r] <= snapshots[r]
    /\ dispatches[r] <= modelCalls[r]

C5_Witness ==
  \E r \in Runs :
    /\ Settled(r)
    /\ snapshots[r] = maxSteps /\ modelCalls[r] = maxSteps
    /\ dispatches[r] = maxSteps - 1 /\ parseFailures[r] = 1

(***************************************************************************)
(* C6.  A run in which no awaited call throws and no reply is a finish     *)
(* makes exactly maxSteps snapshots and model calls and then fulfils its   *)
(* promise with the browser closed; and every run that was started         *)
(* settles, provided every awaited call returns or throws.                 *)
(***************************************************************************)
C6_TwentyStepsThenTerminates ==
  /\ [](\A r \in Runs :
          Settled(r) /\ ~Aborted(r) /\ Kind(r) # "finish" =>
            /\ snapshots[r] = maxSteps /\ modelCalls[r] = maxSteps
            /\ i[r] = maxSteps
            /\ Exhausted(r) /\ Fulfilled(r) /\ browser[r] = "closed")
  /\ \A r \in Runs : (pc[r] = "launch") ~> Settled(r)

C6_Witness ==
  \E r \in Runs :
    /\ Settled(r) /\ Exhausted(r) /\ Fulfilled(r)
    /\ modelCalls[r] = maxSteps /\ browser[r] = "closed"
    /\ parseFailures[r] = 0

(***************************************************************************)
(* C7.  A fill, click or select whose target does not resolve aborts the   *)
(* run: the failing step and every later one leave the history, the page   *)
(* and the counts of snapshots, model calls and dispatches unchanged, the  *)
(* browser is closed and main rejects with the error.                      *)
(***************************************************************************)
DispatchFailed(r) == Aborted(r) /\ action[r].parsed /\ Kind(r) \in PageActions

DispatchFrame(r) ==
  /\ conversationHistory'[r] = conversationHistory[r]
  /\ page'[r] = page[r]
  /\ i'[r] = i[r]
  /\ snapshots'[r] = snapshots[r]
  /\ modelCalls'[r] = modelCalls[r]
  /\ dispatches'[r] = dispatches[r]

C7_DispatchFailureAborts ==
  [][\A r \in Runs :
       /\ (/\ pc[r] = "locator"
           /\ ~Dispatch(page[r], action[r].obj).ok
           /\ pc'[r] # pc[r])
          => /\ thrown'[r] \in {Dispatch(page[r], action[r].obj).error, "TargetClosedError"}
             /\ completion'[r] = [type |-> "throw", value |-> thrown'[r]]
             /\ pc'[r] = "close"
             /\ DispatchFrame(r)
       /\ DispatchFailed(r)
          => /\ DispatchFrame(r)
             /\ DispatchFailed(r)'
             /\ pc'[r] \in {"close", "settled"}
             /\ pc'[r] = "settled" =>
                  /\ result'[r] = [state |-> "rejected", error |-> thrown[r]]
                  /\ browser'[r] = "closed"]_vars

C7_Witness ==
  \E r \in Runs :
    /\ DispatchFailed(r) /\ thrown[r] = "StrictModeViolation"
    /\ observed[r] = [state |-> "rejected", error |-> "StrictModeViolation"]
    /\ browser[r] = "closed"

(***************************************************************************)
(* C8.  main's promise is rejected, and the caller sees the rejection,     *)
(* only after browser.close() has completed: the browser is never open in  *)
(* a state where the rejection exists.                                     *)
(***************************************************************************)
C8_ClosedBeforeRejection ==
  \A r \in Runs :
    Rejected(r) \/ observed[r].state = "rejected" => browser[r] # "open"

C8_Witness ==
  \E r \in Runs :
    /\ observed[r] = [state |-> "rejected", error |-> "NavigationError"]
    /\ browser[r] = "closed"

(***************************************************************************)
(* C9.  As stated: whenever the reply contains a balanced JSON object with *)
(* a recognized action field, the parser succeeds and its result is such   *)
(* an object of the reply, whatever surrounds it.                          *)
(***************************************************************************)
RecognizedActions == {"fill", "click", "select", "finish"}

\* The spans of text that are a JSON object with a recognized action.
ActionObjects(text) ==
  {ab \in (1..Len(text)) \X (1..Len(text)) :
     /\ ab[1] <= ab[2]
     /\ JSONParse(SubSeq(text, ab[1], ab[2])).ok
     /\ Field(JSONParse(SubSeq(text, ab[1], ab[2])).obj, "action") \in RecognizedActions}

C9_ExtractsEmbeddedObject ==
  parseOutput.applied /\ ActionObjects(parseInput) # {} =>
    /\ parseOutput.ok
    /\ \E ab \in ActionObjects(parseInput) :
         /\ RegexMatch(parseInput) = [found |-> TRUE, first |-> ab[1], last |-> ab[2]]
         /\ parseOutput.obj = JSONParse(SubSeq(parseInput, ab[1], ab[2])).obj

(***************************************************************************)
(* C10.  As stated: a run that returned after a finish action has          *)
(* dispatched a successful click on the submit control in an earlier step. *)
(***************************************************************************)
C10_SubmitBeforeFinish ==
  \A r \in Runs : Finished(r) => submitStep[r] # 0 /\ submitStep[r] < i[r] + 1

\* C10, amended: a run that returned after a finish action parsed a finish
\* in its last step, step i + 1, and dispatched nothing in it; the form need
\* not have been submitted, and if a click submitted it, that click was
\* dispatched in an earlier step.
C10_FinishEndsRun ==
  \A r \in Runs :
    Finished(r) =>
      /\ action[r].parsed /\ Kind(r) = "finish"
      /\ dispatches[r] <= i[r]
      /\ page[r].submitted <=> submitStep[r] # 0
      /\ submitStep[r] # 0 => submitStep[r] < i[r] + 1

C10_Witness ==
  \E r \in Runs :
    Settled(r) /\ Finished(r) /\ submitStep[r] = 1 /\ i[r] = 1

(***************************************************************************)
(* C11.  With two runs of main in progress at once, every step is a step   *)
(* of one run and leaves the browser, page, history, step counter and      *)
(* every other value of the other run as it was; in particular a run that  *)
(* closes its browser leaves the other run's browser alone.  The history   *)
(* of a run starts with the system message of the run's own data and its   *)
(* length follows the run's own counters.                                  *)
(***************************************************************************)
OwnHistory(r) ==
  LET h == conversationHistory[r] IN
  h # <<>> =>
    /\ h[1] = SystemMessage(Data(r))
    /\ Len(h) = 1 + modelCalls[r] + CountRole(h, "assistant") + parseFailures[r]
    /\ snapshots[r] \in {i[r], i[r] + 1}

C11_RunsAreIsolated ==
  /\ [](\A r \in Runs : OwnHistory(r))
  /\ [][\E r \in Runs : \A q \in Runs \ {r} : Cur(q)' = Cur(q)]_vars
  /\ [][\A r \in Runs :
         closeCalls'[r] # closeCalls[r] \/ browser'[r] # browser[r] =>
           \A q \in Runs \ {r} : browser'[q] = browser[q] /\ page'[q] = page[q]]_vars

C11_Witness ==
  /\ pc["http"] = "settled" /\ browser["http"] = "closed" /\ i["http"] = 0
  /\ pc["cron"] = "generateText" /\ browser["cron"] = "open" /\ i["cron"] = 1
  /\ Len(conversationHistory["cron"]) = 5
  /\ Len(conversationHistory["http"]) = 3

(***************************************************************************)
(* C12.  A step whose reply parses to an object whose action is none of    *)
(* fill, click, select, finish (an object without an action field          *)
(* included) leaves the page unchanged, throws nothing, dispatches nothing *)
(* and appends the assistant message only; i grows by one and the next     *)
(* snapshot is taken while budget remains, else the loop ends normally.    *)
(***************************************************************************)
UnknownActionStep(r) ==
  /\ pc[r] = "generateText"
  /\ Len(conversationHistory'[r]) > Len(conversationHistory[r])
  /\ LET m == conversationHistory'[r][Len(conversationHistory[r]) + 1] IN
       /\ m.role = "assistant"
       /\ ExtractAction(m.content.body).ok
       /\ Field(ExtractAction(m.content.body).obj, "action") \notin RecognizedActions

C12_UnknownActionIsNoOp ==
  [][\A r \in Runs :
       UnknownActionStep(r) =>
         /\ page'[r] = page[r]
         /\ thrown'[r] = "" /\ result'[r] = Pending
         /\ dispatches'[r] = dispatches[r]
         /\ parseFailures'[r] = parseFailures[r]
         /\ Len(conversationHistory'[r]) = Len(conversationHistory[r]) + 1
         /\ SubSeq(conversationHistory'[r], 1, Len(conversationHistory[r]))
              = conversationHistory[r]
         /\ i'[r] = i[r] + 1
         /\ IF i'[r] < maxSteps
              THEN pc'[r] = "evaluate" /\ snapshots'[r] = snapshots[r] + 1
              ELSE /\ pc'[r] = "close" /\ snapshots'[r] = snapshots[r]
                   /\ completion'[r] = [type |-> "return", value |-> "exhausted"]]_vars

C12_Witness ==
  \E r \in Runs :
    LET h == conversationHistory[r] IN
    /\ Settled(r) /\ Exhausted(r) /\ Fulfilled(r)
    /\ dispatches[r] = 0 /\ parseFailures[r] = 0
    /\ modelCalls[r] = maxSteps /\ Len(h) = 1 + 2 * maxSteps
    /\ h[3].content.body = ReplyEmptyObject
    /\ h[2 * maxSteps + 1].content.body = ReplyUnknown
    /\ page[r] = LoadedPage

(***************************************************************************)
(* C13.  The events of a step of a run happen one at a time, in the order  *)
(* snapshot, perception message, model call, assistant message, parse,     *)
(* dispatch: while the model call of step k is in flight the history ends  *)
(* with the perception of step k, while a dispatch is in flight it ends    *)
(* with the assistant message the action was parsed from, and the snapshot *)
(* of step k + 1 is called only once the dispatch of step k has returned.  *)
(***************************************************************************)
Last(h) == h[Len(h)]

\* Where the run is within step i + 1, told by its counters and its history.
StepPosition(r) ==
  LET h == conversationHistory[r]
      k == i[r] + 1
  IN /\ pc[r] = "evaluate" =>
          /\ snapshots[r] = k /\ modelCalls[r] = k - 1 /\ dispatches[r] <= k - 1
          /\ ~action[r].parsed
          /\ CountRole(h, "assistant") = k - 1
          /\ Len(h) = 2 * k - 1 + parseFailures[r]
     /\ pc[r] = "generateText" =>
          /\ snapshots[r] = k /\ modelCalls[r] = k /\ dispatches[r] <= k - 1
          /\ ~action[r].parsed
          /\ CountRole(h, "assistant") = k - 1
          /\ Last(h) = PerceptionMessage(getSerializedPage(page[r]))
     /\ pc[r] \in {"locator", "waitForTimeout"} =>
          /\ snapshots[r] = k /\ modelCalls[r] = k /\ dispatches[r] <= k
          /\ action[r].parsed
          /\ CountRole(h, "assistant") = k
          /\ Last(h).role = "assistant"
          /\ ExtractAction(Last(h).content.body).obj = action[r].obj

\* Each event of a step follows the event before it, one await at a time.
StepOrder(r) ==
  /\ snapshots'[r] # snapshots[r] =>
       /\ snapshots'[r] = snapshots[r] + 1
       /\ pc[r] \in {"goto", "generateText", "locator"} /\ pc'[r] = "evaluate"
       /\ pc[r] = "locator" =>
            /\ Dispatch(page[r], action[r].obj).ok
            /\ page'[r] = Dispatch(page[r], action[r].obj).page
       /\ modelCalls'[r] = modelCalls[r] /\ dispatches'[r] = dispatches[r]
  /\ modelCalls'[r] # modelCalls[r] =>
       /\ modelCalls'[r] = modelCalls[r] + 1
       /\ pc[r] = "evaluate" /\ pc'[r] = "generateText"
       /\ conversationHistory'[r] =
            Append(conversationHistory[r],
                   PerceptionMessage(getSerializedPage(page[r])))
       /\ dispatches'[r] = dispatches[r]
  /\ dispatches'[r] # dispatches[r] =>
       /\ dispatches'[r] = dispatches[r] + 1
       /\ pc[r] = "generateText" /\ pc'[r] = "locator"
       /\ Len(conversationHistory'[r]) = Len(conversationHistory[r]) + 1
       /\ Last(conversationHistory'[r]).role = "assistant"
  /\ page'[r] # page[r] => pc[r] \in {"goto", "locator"}

C13_StepEventsInOrder ==
  /\ [](\A r \in Runs : StepPosition(r))
  /\ [][\A r \in Runs : StepOrder(r)]_vars

C13_Witness ==
  \E r \in Runs :
    /\ pc[r] = "generateText" /\ i[r] = 1
    /\ snapshots[r] = 2 /\ modelCalls[r] = 2 /\ dispatches[r] = 1
    /\ page[r].values.firstName = "Ann"
    /\ Len(conversationHistory[r]) = 4

(***************************************************************************)
(* C14.  As stated: the handler calls main exactly when the body has a     *)
(* firstName and a lastName, answers 400 and launches no browser when one  *)
(* of them is absent, and otherwise answers 200 exactly when main resolved *)
(* and 500 exactly when it rejected.                                       *)
(***************************************************************************)
Started(r) == pc[r] \notin {"idle", "returned"}
HasField(k) == body.parsed /\ Member(body.data, k) # Undefined
HasValue(k) == body.parsed /\ Member(body.data, k) \notin {Undefined, ""}

Answers(r) ==
  /\ status[r] \in {0, 200, 400, 500}
  /\ status[r] = 400 <=> pc[r] = "returned"
  /\ status[r] = 400 =>
       /\ browser[r] = "undefined" /\ closeCalls[r] = 0
       /\ conversationHistory[r] = <<>> /\ result[r] = Pending
  /\ status[r] = 200 <=> observed[r].state = "fulfilled"
  /\ status[r] = 500 <=> observed[r].state = "rejected"

C14_RunIffBothFieldsPresent ==
  /\ Started("http") => HasField("firstName") /\ HasField("lastName")
  /\ status["http"] = 400 => ~(HasField("firstName") /\ HasField("lastName"))
  /\ Answers("http")

\* C14, amended: the handler calls main exactly when the body has a
\* firstName and a lastName that are not empty; when one of them is absent
\* or the empty string it answers 400 and launches no browser.  When main
\* was called, it answers 200 exactly when main resolved, by a finish or by
\* the step budget, and 500 exactly when main rejected.
C14_RunIffBothFieldsNotEmpty ==
  /\ Started("http") => HasValue("firstName") /\ HasValue("lastName")
  /\ status["http"] = 400 => ~(HasValue("firstName") /\ HasValue("lastName"))
  /\ Answers("http")

C14_Witness ==
  /\ status["http"] = 200 /\ Exhausted("http")
  /\ body = Body("Ann", "Lee", Undefined)
  /\ closeCalls["http"] = 1

(***************************************************************************)
(* C15.  The history of a run only grows at its end: every step leaves the *)
(* messages it had in place, an assistant reply that did not parse         *)
(* included.  Its first message is the system message and no other message *)
(* has the role system.  Every call of the model gets the whole history as *)
(* it is at the call.                                                      *)
(***************************************************************************)
IsPrefix(g, h) == Len(g) <= Len(h) /\ SubSeq(h, 1, Len(g)) = g

SingleSystemMessage(r) ==
  LET h == conversationHistory[r] IN
  h # <<>> =>
    /\ h[1] = SystemMessage(Data(r))
    /\ \A p \in 2..Len(h) : h[p].role \in {"user", "assistant"}

FullReplay(r) ==
  /\ pc[r] = "generateText" => messages[r] = conversationHistory[r]
  /\ IsPrefix(messages[r], conversationHistory[r])

C15_HistoryAppendOnly ==
  /\ [](\A r \in Runs : SingleSystemMessage(r) /\ FullReplay(r))
  /\ [][\A r \in Runs :
         /\ IsPrefix(conversationHistory[r], conversationHistory'[r])
         /\ modelCalls'[r] # modelCalls[r] =>
              /\ messages'[r] = conversationHistory'[r]
              /\ Len(messages'[r]) = Len(conversationHistory[r]) + 1]_vars

C15_Witness ==
  \E r \in Runs :
    LET m == messages[r] IN
    /\ pc[r] = "generateText" /\ i[r] = 1 /\ parseFailures[r] = 1
    /\ Len(m) = 5 /\ m = conversationHistory[r]
    /\ m[1].role = "system"
    /\ m[3].role = "assistant" /\ ~ExtractAction(m[3].content.body).ok
    /\ m[4] = CorrectionMessage

(***************************************************************************)
(* C16.  As stated: once a finish action is dispatched the run takes no    *)
(* snapshot, calls the model no more, appends nothing to the history and   *)
(* dispatches no page action; what remains is the pause, then the close of *)
(* the browser, then the resolution of main.                               *)
(***************************************************************************)
AfterFinish(r) == action[r].parsed /\ Kind(r) = "finish"

\* The step that gets a reply with a finish action.
FinishStep(r) ==
  /\ pc[r] = "generateText"
  /\ Len(conversationHistory'[r]) > Len(conversationHistory[r])
  /\ LET m == conversationHistory'[r][Len(conversationHistory[r]) + 1] IN
       /\ m.role = "assistant"
       /\ ExtractAction(m.content.body).ok
       /\ Field(ExtractAction(m.content.body).obj, "action") = "finish"

\* The finish step starts the pause, and nothing of the loop happens after.
FinishFrame(r) ==
  /\ FinishStep(r) =>
       /\ AfterFinish(r)' /\ pc'[r] = "waitForTimeout"
       /\ snapshots'[r] = snapshots[r] /\ modelCalls'[r] = modelCalls[r]
       /\ dispatches'[r] = dispatches[r] /\ page'[r] = page[r] /\ i'[r] = i[r]
       /\ Len(conversationHistory'[r]) = Len(conversationHistory[r]) + 1
  /\ AfterFinish(r) =>
       /\ AfterFinish(r)'
       /\ snapshots'[r] = snapshots[r] /\ modelCalls'[r] = modelCalls[r]
       /\ dispatches'[r] = dispatches[r] /\ page'[r] = page[r] /\ i'[r] = i[r]
       /\ conversationHistory'[r] = conversationHistory[r]

\* The pause, then the close, then the end of main.
FinishOrder(r) ==
  AfterFinish(r) =>
    /\ pc[r] \in {"waitForTimeout", "close", "settled"}
    /\ pc[r] = "waitForTimeout" =>
         closeCalls[r] = 0 /\ browser[r] = "open" /\ result[r] = Pending
    /\ pc[r] = "close" =>
         closeCalls[r] = 1 /\ browser[r] = "open" /\ result[r] = Pending
         /\ completion[r].type # "none"
    /\ pc[r] = "settled" =>
         closeCalls[r] = 1 /\ browser[r] = "closed" /\ result[r] # Pending

C16_AfterFinishOnlyPauseCloseResolve ==
  /\ [](\A r \in Runs : FinishOrder(r))
  /\ [](\A r \in Runs : AfterFinish(r) /\ Settled(r) => Fulfilled(r))
  /\ [][\A r \in Runs : FinishFrame(r)]_vars

\* C16, amended: once a finish action is dispatched the run takes no
\* snapshot, calls the model no more, appends nothing to the history and
\* dispatches no page action; what remains is the pause, then the close of
\* the browser, then the end of main: main resolves when the pause returned
\* and rejects with the error of the pause when the pause threw.
C16_AfterFinishOnlyPauseCloseSettle ==
  /\ [](\A r \in Runs : FinishOrder(r))
  /\ [](\A r \in Runs :
          AfterFinish(r) /\ Settled(r) =>
            /\ Fulfilled(r) <=> Finished(r)
            /\ Rejected(r) <=> thrown[r] = "TargetClosedError"
            /\ Rejected(r) => result[r].error = thrown[r]
            /\ Fulfilled(r) \/ Rejected(r))
  /\ [][\A r \in Runs : FinishFrame(r)]_vars

C16_Witness ==
  \E r \in Runs :
    /\ AfterFinish(r) /\ Settled(r) /\ Fulfilled(r)
    /\ observed[r].state = "fulfilled"
    /\ i[r] = 1 /\ snapshots[r] = 2 /\ dispatches[r] = 1
    /\ Len(conversationHistory[r]) = 5

(***************************************************************************)
(* C17.  As stated: a reply whose extracted substring is valid JSON is not *)
(* a parse failure; an object with the action fill, click or select that   *)
(* lacks a field of that action (label, value, role, name) reaches the     *)
(* dispatcher, whose call fails and aborts the run; an object with any     *)
(* other action but finish is an unknown action.                           *)
(***************************************************************************)
\* The step that gets a reply whose extracted substring is valid JSON.
ValidJSONStep(r) ==
  /\ pc[r] = "generateText"
  /\ Len(conversationHistory'[r]) > Len(conversationHistory[r])
  /\ LET m == conversationHistory'[r][Len(conversationHistory[r]) + 1] IN
       m.role = "assistant" /\ ExtractAction(m.content.body).ok

ReplyObject(r) ==
  ExtractAction(conversationHistory'[r][Len(conversationHistory[r]) + 1].content.body).obj

\* The object lacks a field that the call of its action reads.
LacksField(obj) ==
  \/ /\ Field(obj, "action") \in {"fill", "select"}
     /\ Undefined \in {Field(obj, "label"), Field(obj, "value")}
  \/ /\ Field(obj, "action") = "click"
     /\ Undefined \in {Field(obj, "role"), Field(obj, "name")}

\* No parse failure, and the object goes where its action says.
PassedThrough(r) ==
  ValidJSONStep(r) =>
    /\ parseFailures'[r] = parseFailures[r]
    /\ Len(conversationHistory'[r]) = Len(conversationHistory[r]) + 1
    /\ Field(ReplyObject(r), "action") \in PageActions =>
         /\ pc'[r] = "locator" /\ dispatches'[r] = dispatches[r] + 1
         /\ action'[r] = [parsed |-> TRUE, obj |-> ReplyObject(r)]
         /\ thrown'[r] = ""
    /\ Field(ReplyObject(r), "action") \notin RecognizedActions =>
         /\ pc'[r] \in {"evaluate", "close"} /\ dispatches'[r] = dispatches[r]
         /\ i'[r] = i[r] + 1 /\ thrown'[r] = ""

\* The call of the dispatcher ends: it returned, or it threw and the run
\* is aborted with its error.
DispatchEnds(r) ==
  pc[r] = "locator" /\ pc'[r] # "locator" =>
    \/ /\ thrown'[r] = "" /\ i'[r] = i[r] + 1
       /\ Dispatch(page[r], action[r].obj).ok
    \/ /\ thrown'[r] # "" /\ pc'[r] = "close" /\ i'[r] = i[r]
       /\ completion'[r] = [type |-> "throw", value |-> thrown'[r]]

C17_MissingFieldsFailAtDispatch ==
  /\ [][\A r \in Runs : PassedThrough(r) /\ DispatchEnds(r)]_vars
  /\ [][\A r \in Runs :
         pc[r] = "locator" /\ pc'[r] # "locator" /\ LacksField(action[r].obj)
           => thrown'[r] # ""]_vars

\* C17, amended: a reply whose extracted substring is valid JSON is not a
\* parse failure; an object with the action fill, click or select reaches
\* the dispatcher whatever fields it has, and when the call of the
\* dispatcher throws the run is aborted with its error.  The call throws
\* for a fill without label or value, for a select without label and for a
\* click without role; a click without name is a click on the element of
\* the role when the page has exactly one, and the run goes on.  An object
\* with any other action but finish is an unknown action.
C17_MissingFieldsReachDispatch ==
  /\ [][\A r \in Runs : PassedThrough(r) /\ DispatchEnds(r)]_vars
  /\ [][\A r \in Runs :
         LET obj == action[r].obj IN
         (/\ pc[r] = "locator" /\ pc'[r] # "locator"
          /\ \/ Field(obj, "action") = "fill" /\ LacksField(obj)
             \/ Field(obj, "action") = "select" /\ Field(obj, "label") = Undefined
             \/ Field(obj, "action") = "click" /\ Field(obj, "role") = Undefined)
           => thrown'[r] # ""]_vars

C17_Witness ==
  \E r \in Runs :
    /\ Settled(r) /\ Rejected(r) /\ result[r].error = "TypeError"
    /\ action[r].obj = JSONParse(ReplyFillNoFields).obj
    /\ parseFailures[r] = 0 /\ dispatches[r] = 1
    /\ Len(conversationHistory[r]) = 3

(***************************************************************************)
(* C18.  The perception of a step shows the page as it is at that step:    *)
(* each field has the value the page holds, so a field filled in the step  *)
(* before shows the value it was filled with, whatever an earlier          *)
(* perception showed.  The step that takes the snapshot leaves the page as *)
(* it was and only adds the perception to the history.                     *)
(***************************************************************************)
\* The value shown for the element called name in a perception message.
Shown(m, name) ==
  LET ls == {p \in 1..Len(m.content.body) : m.content.body[p].name = name} IN
  IF Cardinality(ls) = 1 THEN m.content.body[CHOOSE p \in ls : TRUE].value
  ELSE Undefined

\* The step before this one was a fill of the field labelled First Name with v.
FilledInPreviousStep(r, v) ==
  LET h == conversationHistory[r] IN
  /\ Len(h) >= 4
  /\ h[Len(h) - 1].role = "assistant"
  /\ ExtractAction(h[Len(h) - 1].content.body).ok
  /\ LET obj == ExtractAction(h[Len(h) - 1].content.body).obj IN
       /\ Field(obj, "action") = "fill"
       /\ Field(obj, "label") = "First Name"
       /\ Field(obj, "value") = v

SnapshotIsFresh(r) ==
  pc[r] = "generateText" =>
    LET m == Last(conversationHistory[r]) IN
    /\ m.role = "user" /\ m.content.kind = "currentPrompt"
    /\ Shown(m, "firstName") = page[r].values.firstName
    /\ Shown(m, "gender") = GenderOptions[page[r].selected.gender]
    /\ \A v \in {"Ann"} : FilledInPreviousStep(r, v) => Shown(m, "firstName") = v

SnapshotIsPure(r) ==
  pc[r] = "evaluate" /\ pc'[r] = "generateText" =>
    /\ page'[r] = page[r]
    /\ Len(conversationHistory'[r]) = Len(conversationHistory[r]) + 1
    /\ IsPrefix(conversationHistory[r], conversationHistory'[r])

C18_SnapshotReflectsPage ==
  /\ [](\A r \in Runs : SnapshotIsFresh(r))
  /\ [][\A r \in Runs : SnapshotIsPure(r)]_vars

C18_Witness ==
  \E r \in Runs :
    LET h == conversationHistory[r] IN
    /\ pc[r] = "generateText" /\ i[r] = 1
    /\ FilledInPreviousStep(r, "Ann")
    /\ Shown(h[2], "firstName") = ""
    /\ Shown(h[4], "firstName") = "Ann"

(***************************************************************************)
(* C19.  As stated: the label of a serialized element is the trimmed text  *)
(* of the label element whose for attribute equals the element's id, else  *)
(* the element's own trimmed text, else the empty string; an element whose *)
(* label element has no text, and an element without an id, get their own  *)
(* text.                                                                   *)
(***************************************************************************)
\* The elements the serializer was applied to, in document order.
Serialized == SelectSeq(dom, IsInteractive)

\* The label elements of doc whose for attribute is id, in document order.
LabelsFor(doc, id) ==
  {p \in 1..Len(doc) : doc[p].tag = "label" /\ doc[p].for = id}

ClaimedLabel(doc, el) ==
  LET ls == IF el.id = "" THEN {} ELSE LabelsFor(doc, el.id)
      text == IF ls = {} THEN <<>> ELSE Trim(doc[Min(ls)].text)
  IN IF text # <<>> THEN text ELSE Trim(el.text)

C19_LabelFallsThroughWhenEmpty ==
  serialized.applied =>
    /\ Len(serialized.elements) = Len(Serialized)
    /\ \A p \in 1..Len(Serialized) :
         serialized.elements[p].label = ClaimedLabel(dom, Serialized[p])

\* C19, amended: when the document has a label element whose for attribute
\* equals the element's id, the label of the serialized element is the
\* trimmed text of the first such label element, the empty string when
\* that text is empty; only when there is no such label element it is the
\* element's own trimmed text, the empty string when that is empty.  An
\* element without an id has the id "", so it gets its own text unless the
\* document has a label element with an empty for attribute.
ResolvedLabel(doc, el) ==
  IF LabelsFor(doc, el.id) # {}
    THEN Trim(doc[Min(LabelsFor(doc, el.id))].text)
    ELSE Trim(el.text)

C19_LabelOfFirstMatchingLabel ==
  serialized.applied =>
    /\ Len(serialized.elements) = Len(Serialized)
    /\ \A p \in 1..Len(Serialized) :
         serialized.elements[p].label = ResolvedLabel(dom, Serialized[p])

C19_Witness ==
  /\ serialized.applied
  /\ dom = << El("label", "", "a", "", "", <<" ">>),
              El("button", "a", "", "submit", "", <<"Go", " ">>),
              El("button", "", "", "button", "", <<" ", "Go">>) >>
  /\ Len(serialized.elements) = 2
  /\ serialized.elements[1].label = <<>>
  /\ serialized.elements[2].label = <<"Go">>

(***************************************************************************)
(* C20.  browser.close() is called only on a browser that chromium.launch  *)
(* returned.  A run whose launch throws calls close zero times, creates no *)
(* history, calls the model zero times and rejects with the launch error.  *)
(* A run whose launch returned and whose browser.newPage or page.goto      *)
(* throws has closed the browser, with one call of close, when it rejects. *)
(***************************************************************************)
SessionErrors == {"NewPageError", "NavigationError"}

C20_CloseOnlyLaunchedBrowser ==
  \A r \in Runs :
    /\ closeCalls[r] > 0 => browser[r] # "undefined"
    /\ thrown[r] = "LaunchError" =>
         /\ browser[r] = "undefined" /\ closeCalls[r] = 0
         /\ conversationHistory[r] = <<>> /\ messages[r] = <<>>
         /\ modelCalls[r] = 0 /\ snapshots[r] = 0
         /\ result[r] = [state |-> "rejected", error |-> "LaunchError"]
    /\ thrown[r] \in SessionErrors =>
         /\ browser[r] # "undefined" /\ closeCalls[r] = 1
         /\ conversationHistory[r] = <<>> /\ modelCalls[r] = 0
         /\ result[r] # Pending =>
              /\ result[r] = [state |-> "rejected", error |-> thrown[r]]
              /\ browser[r] = "closed"
         /\ observed[r] # Pending => browser[r] = "closed"

C20_Witness ==
  \E r \in Runs :
    /\ thrown[r] = "LaunchError" /\ closeCalls[r] = 0
    /\ observed[r] = [state |-> "rejected", error |-> "LaunchError"]
    /\ status[r] = 500

====
